---- MODULE Spec2Model ----
(***************************************************************************)
(* Model of the Wasabi upload bot (src/bot.py, src/config.py).             *)
(*                                                                         *)
(* The bot runs on one asyncio event loop.  Every handler invocation and   *)
(* every process_upload task is a coroutine; the code between two awaits   *)
(* runs atomically, so every action below is one such segment.  Handlers   *)
(* of different updates run concurrently (the dispatcher has several       *)
(* workers), so segments of different handlers and tasks interleave.       *)
(*                                                                         *)
(* asyncio.CancelledError derives from BaseException: "except Exception"   *)
(* does not catch it.  Task.cancel() only requests the cancellation; the   *)
(* CancelledError is thrown into the task the next time it is stepped.     *)
(*                                                                         *)
(* Time is counted in half seconds.  File sizes are counted in MiB.        *)
(***************************************************************************)
EXTENDS Integers, FiniteSets, Sequences, TLC

\* ---------------------------------------------------------------- bounds
NumOwners == 2      \* users (message.from_user.id)
NumNames == 1       \* distinct sanitized file names a user sends
MaxJobs == 2        \* accepted submits in one run
NumChunks == 2      \* chunks of a download (progress callbacks per download)
MaxTicks == 3       \* half seconds the clock advances in one run

\* ------------------------------------------------------------- constants
\* config.MAX_FILE_SIZE = 4 * 1024 * 1024 * 1024 bytes, in MiB
MAX_FILE_SIZE == 4096
\* the literal 1.5 (seconds) of progress_bar, in half seconds
UpdateInterval == 3
\* time.time() at start-up: an epoch time, so "now - 0" (0 being the default
\* of last_update.get) is never below the interval
StartTime == UpdateInterval

Owners == 1 .. NumOwners
Names == 1 .. NumNames
Jobs == 1 .. MaxJobs
Paths == Owners \X Names
\* declared sizes of submitted media: the 30 MB of the scenario, the maximum,
\* and one above it
Sizes == {30, MAX_FILE_SIZE, MAX_FILE_SIZE + 1}

None == 0
NoStatus == [job |-> 0, file_path |-> <<0, 0>>]
NoEvent == <<"none">>
NoKey == <<0, 0, 0>>
NoRet == <<"none">>

VARIABLES
    user_tasks,     \* self.user_tasks: owner -> job whose task is stored, None = no key
    user_status,    \* self.user_status: owner -> status dict, NoStatus = no key
    files,          \* local disk: path -> job that wrote the file, None = no file
    njobs,          \* tasks created so far
    owner,          \* job -> message.from_user.id
    fname,          \* job -> safe_filename
    tpc,            \* job -> where its process_upload task is suspended
    hpc,            \* job -> where its file_handler is suspended
    must_cancel,    \* job -> Task.cancel() was called and not yet delivered
    dl,             \* job -> chunks download_media has written
    exc,            \* job -> exception in flight in / raised by process_upload
    now,            \* the value time.time() returned last
    last_update,    \* progress_bar.last_update: chat id -> time of last push
    pushed,         \* job -> current of the last progress text given to edit_text
    nreg,           \* job -> times its user_tasks entry was deleted
    nfile,          \* job -> times a file it wrote was os.remove()d
    event,          \* reply of the handler segment that ran last
    s3_key,         \* job -> object key computed for its upload, NoKey = none yet
    arg,            \* argument of the call of a function checked on its own
    ret             \* what that call returned or raised, NoRet = not called yet

\* the variables of the calls checked on their own (start-up,
\* sanitize_filename, human_size); the bot's handlers never touch them
aux == <<arg, ret>>

\* the variables of the running bot, which those calls never touch
bot == <<user_tasks, user_status, files, njobs, owner, fname, tpc, hpc,
         must_cancel, dl, exc, now, last_update, pushed, nreg, nfile, event,
         s3_key>>

vars == <<user_tasks, user_status, files, njobs, owner, fname, tpc, hpc,
          must_cancel, dl, exc, now, last_update, pushed, nreg, nfile, event,
          s3_key, arg, ret>>

TaskPcs == {"none", "created", "reply", "download", "progress_edit",
            "flood_sleep", "edit_uploading", "edit_error", "done"}
HandlerPcs == {"none", "await_task", "reply_failed", "returned"}
Excs == {"none", "CancelledError", "RPCError", "TransferError", "KeyError",
         "NameError"}

TypeOK ==
    /\ user_tasks \in [Owners -> 0 .. MaxJobs]
    /\ \A o \in Owners : user_status[o].job \in 0 .. MaxJobs
    /\ files \in [Paths -> 0 .. MaxJobs]
    /\ njobs \in 0 .. MaxJobs
    /\ tpc \in [Jobs -> TaskPcs]
    /\ hpc \in [Jobs -> HandlerPcs]
    /\ must_cancel \in [Jobs -> BOOLEAN]
    /\ dl \in [Jobs -> 0 .. NumChunks]
    /\ exc \in [Jobs -> Excs]
    /\ now \in StartTime .. StartTime + MaxTicks
    /\ pushed \in [Jobs -> 0 .. NumChunks]
    /\ \A j \in Jobs : s3_key[j] \in (0 .. NumOwners) \X Nat \X (0 .. NumNames)

\* the bot after WasabiUploadBot.__init__, the clock reading t
InitBot(t) ==
    /\ user_tasks = [o \in Owners |-> None]
    /\ user_status = [o \in Owners |-> NoStatus]
    /\ files = [p \in Paths |-> None]
    /\ njobs = 0
    /\ owner = [j \in Jobs |-> 0]
    /\ fname = [j \in Jobs |-> 0]
    /\ tpc = [j \in Jobs |-> "none"]
    /\ hpc = [j \in Jobs |-> "none"]
    /\ must_cancel = [j \in Jobs |-> FALSE]
    /\ dl = [j \in Jobs |-> 0]
    /\ exc = [j \in Jobs |-> "none"]
    /\ now = t
    /\ last_update = [o \in Owners |-> 0]
    /\ pushed = [j \in Jobs |-> 0]
    /\ nreg = [j \in Jobs |-> 0]
    /\ nfile = [j \in Jobs |-> 0]
    /\ event = NoEvent
    /\ s3_key = [j \in Jobs |-> NoKey]

Init ==
    /\ InitBot(StartTime)
    /\ arg = NoRet
    /\ ret = NoRet

\* ------------------------------------------------------------- helpers
\* file_path = os.path.join(config.DOWNLOAD_DIR, str(user_id), safe_filename)
FilePath(j) == <<owner[j], fname[j]>>

\* status_msg.chat.id: the reply goes to the chat the media came from, the
\* user's private chat with the bot
ChatId(j) == owner[j]

Inc(f, j) == IF j = None THEN f ELSE [f EXCEPT ![j] = IF @ < 2 THEN @ + 1 ELSE @]

\* if os.path.exists(file_path): os.remove(file_path)
RemoveFile(p) ==
    /\ files' = [files EXCEPT ![p] = None]
    /\ nfile' = Inc(nfile, files[p])


\* a finally block that forgets the task entry and drops only the status
CleanupStatusOnly(o) ==
    /\ user_status' = [user_status EXCEPT ![o] = NoStatus]
    /\ UNCHANGED <<user_tasks, nreg>>

\* finally block of file_handler: drop whatever the two dicts hold for the user
Cleanup(o) ==
    /\ user_tasks' = [user_tasks EXCEPT ![o] = None]
    /\ nreg' = Inc(nreg, user_tasks[o])
    /\ user_status' = [user_status EXCEPT ![o] = NoStatus]

\* a size check that also turns away a file of exactly the maximum
TooLargeInclusive(size) == size >= MAX_FILE_SIZE

\* media.file_size > config.MAX_FILE_SIZE
TooLarge(size) == size > MAX_FILE_SIZE

\* a concurrency check that looks in user_status, which process_upload fills
\* only when the task starts
HasActiveUploadInStatus(o) == user_status[o] # NoStatus

\* message.from_user.id in self.user_tasks
HasActiveUpload(o) == user_tasks[o] # None

\* a throttle without the "current != total" exemption
ThrottledAlways(chat, t, current, total) ==
    t - last_update[chat] < UpdateInterval

\* now - last_update < 1.5 and current != total
Throttled(chat, t, current, total) ==
    t - last_update[chat] < UpdateInterval /\ current # total

\* ----------------------------------------------------------- file_handler
\* size check fails: reply and return
SubmitTooLarge(o, size) ==
    /\ TooLarge(size)
    /\ event' = <<"TooLarge", o, size>>
    /\ UNCHANGED <<user_tasks, user_status, files, njobs, owner, fname, tpc,
                   hpc, must_cancel, dl, exc, now, last_update, pushed, nreg,
                   nfile>>
    /\ UNCHANGED <<s3_key, aux>>

\* the user has a key in user_tasks: reply and return
SubmitAlreadyActive(o, size) ==
    /\ ~TooLarge(size)
    /\ HasActiveUpload(o)
    /\ event' = <<"AlreadyActive", o>>
    /\ UNCHANGED <<user_tasks, user_status, files, njobs, owner, fname, tpc,
                   hpc, must_cancel, dl, exc, now, last_update, pushed, nreg,
                   nfile>>
    /\ UNCHANGED <<s3_key, aux>>

\* create the task, store it, and suspend in "await task"
SubmitAccept(o, n, size) ==
    /\ njobs < MaxJobs
    /\ ~TooLarge(size)
    /\ ~HasActiveUpload(o)
    /\ njobs' = njobs + 1
    /\ owner' = [owner EXCEPT ![njobs + 1] = o]
    /\ fname' = [fname EXCEPT ![njobs + 1] = n]
    /\ tpc' = [tpc EXCEPT ![njobs + 1] = "created"]
    /\ hpc' = [hpc EXCEPT ![njobs + 1] = "await_task"]
    /\ user_tasks' = [user_tasks EXCEPT ![o] = njobs + 1]
    /\ event' = <<"Accepted", o, size>>
    /\ UNCHANGED <<user_status, files, must_cancel, dl, exc, now, last_update,
                   pushed, nreg, nfile>>
    /\ UNCHANGED <<s3_key, aux>>

\* "await task" raised CancelledError: log, then the finally block
HandlerCancelled(j) ==
    /\ hpc[j] = "await_task" /\ tpc[j] = "done" /\ exc[j] = "CancelledError"
    /\ Cleanup(owner[j])
    /\ hpc' = [hpc EXCEPT ![j] = "returned"]
    /\ event' = NoEvent
    /\ UNCHANGED <<files, njobs, owner, fname, tpc, must_cancel, dl, exc, now,
                   last_update, pushed, nfile>>
    /\ UNCHANGED <<s3_key, aux>>

\* "await task" raised an Exception: log and await reply_text("Upload failed")
HandlerFailed(j) ==
    /\ hpc[j] = "await_task" /\ tpc[j] = "done" /\ exc[j] # "CancelledError"
    /\ hpc' = [hpc EXCEPT ![j] = "reply_failed"]
    /\ event' = NoEvent
    /\ UNCHANGED <<user_tasks, user_status, files, njobs, owner, fname, tpc,
                   must_cancel, dl, exc, now, last_update, pushed, nreg, nfile>>
    /\ UNCHANGED <<s3_key, aux>>

\* the reply returned or raised: either way the finally block runs
HandlerFinally(j) ==
    /\ hpc[j] = "reply_failed"
    /\ Cleanup(owner[j])
    /\ hpc' = [hpc EXCEPT ![j] = "returned"]
    /\ event' = NoEvent
    /\ UNCHANGED <<files, njobs, owner, fname, tpc, must_cancel, dl, exc, now,
                   last_update, pushed, nfile>>
    /\ UNCHANGED <<s3_key, aux>>

\* --------------------------------------------------------- cancel_handler
\* a cancel_handler that clears both dicts instead of deleting the user's key
CancelFoundClearsAll(o) ==
    /\ user_tasks[o] # None
    /\ must_cancel' = [must_cancel EXCEPT ![user_tasks[o]] = (tpc[user_tasks[o]] # "done")]
    /\ user_tasks' = [u \in Owners |-> None]
    /\ nreg' = Inc(nreg, user_tasks[o])
    /\ IF user_status[o] # NoStatus
          THEN RemoveFile(user_status[o].file_path)
          ELSE UNCHANGED <<files, nfile>>
    /\ user_status' = [u \in Owners |-> NoStatus]
    /\ event' = <<"Cancelled", o>>
    /\ UNCHANGED <<njobs, owner, fname, tpc, hpc, dl, exc, now, last_update,
                   pushed>>
    /\ UNCHANGED <<s3_key, aux>>

\* task.cancel(); del user_tasks[user_id]; remove the file the status names;
\* del user_status[user_id]; reply
CancelFound(o) ==
    /\ user_tasks[o] # None
    /\ must_cancel' = [must_cancel EXCEPT ![user_tasks[o]] = (tpc[user_tasks[o]] # "done")]
    /\ user_tasks' = [user_tasks EXCEPT ![o] = None]
    /\ nreg' = Inc(nreg, user_tasks[o])
    /\ IF user_status[o] # NoStatus
          THEN RemoveFile(user_status[o].file_path)
          ELSE UNCHANGED <<files, nfile>>
    /\ user_status' = [user_status EXCEPT ![o] = NoStatus]
    /\ event' = <<"Cancelled", o>>
    /\ UNCHANGED <<njobs, owner, fname, tpc, hpc, dl, exc, now, last_update,
                   pushed>>
    /\ UNCHANGED <<s3_key, aux>>

CancelNotFound(o) ==
    /\ user_tasks[o] = None
    /\ event' = <<"NotFound", o>>
    /\ UNCHANGED <<user_tasks, user_status, files, njobs, owner, fname, tpc,
                   hpc, must_cancel, dl, exc, now, last_update, pushed, nreg,
                   nfile>>
    /\ UNCHANGED <<s3_key, aux>>


\* --------------------------------------------------------- process_upload
\* time.time() never runs backwards: the values a call can return, now being
\* the value the last call returned
Clock == now .. StartTime + MaxTicks

\* A segment of the task runs only while no cancellation is pending.
Runs(j, pc) == tpc[j] = pc /\ ~must_cancel[j]

\* "except Exception as e" of process_upload is entered with e: log and await
\* status_msg.edit_text("Error: ...")
EnterExcept(j, e) ==
    /\ exc' = [exc EXCEPT ![j] = e]
    /\ tpc' = [tpc EXCEPT ![j] = "edit_error"]

\* first step of the task: file name and path, the status dict, then await
\* message.reply_text("Downloading from Telegram...")
TaskStart(j) ==
    /\ Runs(j, "created")
    /\ user_status' = [user_status EXCEPT ![owner[j]] =
                          [job |-> j, file_path |-> FilePath(j)]]
    /\ tpc' = [tpc EXCEPT ![j] = "reply"]
    /\ event' = NoEvent
    /\ UNCHANGED <<user_tasks, files, njobs, owner, fname, hpc, must_cancel,
                   dl, exc, now, last_update, pushed, nreg, nfile>>
    /\ UNCHANGED <<s3_key, aux>>

\* the first reply was sent: enter the try block and await download_media
ReplyOk(j) ==
    /\ Runs(j, "reply")
    /\ tpc' = [tpc EXCEPT ![j] = "download"]
    /\ event' = NoEvent
    /\ UNCHANGED <<user_tasks, user_status, files, njobs, owner, fname, hpc,
                   must_cancel, dl, exc, now, last_update, pushed, nreg, nfile>>
    /\ UNCHANGED <<s3_key, aux>>

\* the first reply raised: it is awaited before the try, so the task ends
\* with that exception
ReplyFail(j) ==
    /\ Runs(j, "reply")
    /\ tpc' = [tpc EXCEPT ![j] = "done"]
    /\ exc' = [exc EXCEPT ![j] = "RPCError"]
    /\ event' = NoEvent
    /\ UNCHANGED <<user_tasks, user_status, files, njobs, owner, fname, hpc,
                   must_cancel, dl, now, last_update, pushed, nreg, nfile>>
    /\ UNCHANGED <<s3_key, aux>>

\* progress_bar(current, total, status_msg, ...) up to its await, with t the
\* value time.time() returns: return when throttled, else note the time and
\* await status_msg.edit_text(progress_text)
ProgressBar(j, current, total, t) ==
    /\ now' = t
    /\ IF Throttled(ChatId(j), t, current, total)
       THEN UNCHANGED <<last_update, pushed, tpc>>
       ELSE /\ last_update' = [last_update EXCEPT ![ChatId(j)] = t]
            /\ pushed' = [pushed EXCEPT ![j] = current]
            /\ tpc' = [tpc EXCEPT ![j] = "progress_edit"]

\* download_media wrote one more chunk to file_path and calls the progress
\* callback
DownloadChunk(j) ==
    /\ Runs(j, "download")
    /\ dl[j] < NumChunks
    /\ dl' = [dl EXCEPT ![j] = @ + 1]
    /\ files' = [files EXCEPT ![FilePath(j)] = j]
    /\ \E t \in Clock : ProgressBar(j, dl[j] + 1, NumChunks, t)
    /\ event' = NoEvent
    /\ UNCHANGED <<user_tasks, user_status, njobs, owner, fname, hpc,
                   must_cancel, exc, nreg, nfile>>
    /\ UNCHANGED <<s3_key, aux>>

\* edit_text of a progress report returned
ProgressEditOk(j) ==
    /\ Runs(j, "progress_edit")
    /\ tpc' = [tpc EXCEPT ![j] = "download"]
    /\ event' = NoEvent
    /\ UNCHANGED <<user_tasks, user_status, files, njobs, owner, fname, hpc,
                   must_cancel, dl, exc, now, last_update, pushed, nreg, nfile>>
    /\ UNCHANGED <<s3_key, aux>>

\* edit_text of a progress report raised FloodWait: await asyncio.sleep(e.value)
ProgressEditFloodWait(j) ==
    /\ Runs(j, "progress_edit")
    /\ tpc' = [tpc EXCEPT ![j] = "flood_sleep"]
    /\ event' = <<"FloodWait", j>>
    /\ UNCHANGED <<user_tasks, user_status, files, njobs, owner, fname, hpc,
                   must_cancel, dl, exc, now, last_update, pushed, nreg, nfile>>
    /\ UNCHANGED <<s3_key, aux>>

\* the sleep is over: progress_bar returns to download_media
FloodSleepDone(j) ==
    /\ Runs(j, "flood_sleep")
    /\ tpc' = [tpc EXCEPT ![j] = "download"]
    /\ event' = NoEvent
    /\ UNCHANGED <<user_tasks, user_status, files, njobs, owner, fname, hpc,
                   must_cancel, dl, exc, now, last_update, pushed, nreg, nfile>>
    /\ UNCHANGED <<s3_key, aux>>

\* a progress_bar without its "except Exception" clause: the error of the
\* edit leaves download_media and reaches the except clause of process_upload
ProgressEditErrorRaises(j) ==
    /\ Runs(j, "progress_edit")
    /\ EnterExcept(j, "RPCError")
    /\ event' = <<"ProgressError", j>>
    /\ UNCHANGED <<user_tasks, user_status, files, njobs, owner, fname, hpc,
                   must_cancel, dl, now, last_update, pushed, nreg, nfile>>
    /\ UNCHANGED <<s3_key, aux>>

\* edit_text of a progress report raised another Exception: the except
\* clause of progress_bar logs it and progress_bar returns to download_media
ProgressEditError(j) ==
    /\ Runs(j, "progress_edit")
    /\ tpc' = [tpc EXCEPT ![j] = "download"]
    /\ event' = <<"ProgressError", j>>
    /\ UNCHANGED <<user_tasks, user_status, files, njobs, owner, fname, hpc,
                   must_cancel, dl, exc, now, last_update, pushed, nreg, nfile>>
    /\ UNCHANGED <<s3_key, aux>>

\* download_media raised
DownloadFail(j) ==
    /\ Runs(j, "download")
    /\ EnterExcept(j, "TransferError")
    /\ event' = NoEvent
    /\ UNCHANGED <<user_tasks, user_status, files, njobs, owner, fname, hpc,
                   must_cancel, dl, now, last_update, pushed, nreg, nfile>>
    /\ UNCHANGED <<s3_key, aux>>

\* a process_upload that goes on to the upload without waiting for
\* download_media to finish
DownloadReturnEarly(j) ==
    /\ Runs(j, "download")
    /\ IF user_status[owner[j]] = NoStatus
          THEN EnterExcept(j, "KeyError")
          ELSE /\ tpc' = [tpc EXCEPT ![j] = "edit_uploading"]
               /\ UNCHANGED exc
    /\ event' = NoEvent
    /\ UNCHANGED <<user_tasks, user_status, files, njobs, owner, fname, hpc,
                   must_cancel, dl, now, last_update, pushed, nreg, nfile>>
    /\ UNCHANGED <<s3_key, aux>>

\* download_media returned: self.user_status[user_id]['elapsed'] = ... raises
\* KeyError when the user's key is gone, else await edit_text("Uploading...")
DownloadReturn(j) ==
    /\ Runs(j, "download")
    /\ dl[j] = NumChunks
    /\ IF user_status[owner[j]] = NoStatus
          THEN EnterExcept(j, "KeyError")
          ELSE /\ tpc' = [tpc EXCEPT ![j] = "edit_uploading"]
               /\ UNCHANGED exc
    /\ event' = NoEvent
    /\ UNCHANGED <<user_tasks, user_status, files, njobs, owner, fname, hpc,
                   must_cancel, dl, now, last_update, pushed, nreg, nfile>>
    /\ UNCHANGED <<s3_key, aux>>

\* s3_key = f"{user_id}/{int(time.time())}_{safe_filename}", t being the
\* value time.time() returns (half seconds; int() gives whole seconds)
S3Key(j, t) == <<owner[j], t \div 2, fname[j]>>

\* the "Uploading" edit returned: mime type and s3_key are computed, then
\* "s3_client.upload_file(...)" looks up the global name s3_client, which
\* this module never binds: NameError, before anything is sent to the store
EditUploadingOk(j) ==
    /\ Runs(j, "edit_uploading")
    /\ \E t \in Clock :
          /\ now' = t
          /\ s3_key' = [s3_key EXCEPT ![j] = S3Key(j, t)]
    /\ EnterExcept(j, "NameError")
    /\ event' = NoEvent
    /\ UNCHANGED <<user_tasks, user_status, files, njobs, owner, fname, hpc,
                   must_cancel, dl, last_update, pushed, nreg, nfile>>
    /\ UNCHANGED aux

\* the "Uploading" edit raised: it is inside the try
EditUploadingFail(j) ==
    /\ Runs(j, "edit_uploading")
    /\ EnterExcept(j, "RPCError")
    /\ event' = NoEvent
    /\ UNCHANGED <<user_tasks, user_status, files, njobs, owner, fname, hpc,
                   must_cancel, dl, now, last_update, pushed, nreg, nfile>>
    /\ UNCHANGED <<s3_key, aux>>

\* the error edit returned: remove the local file if it exists, re-raise e
ErrorEditOk(j) ==
    /\ Runs(j, "edit_error")
    /\ RemoveFile(FilePath(j))
    /\ tpc' = [tpc EXCEPT ![j] = "done"]
    /\ event' = NoEvent
    /\ UNCHANGED <<user_tasks, user_status, njobs, owner, fname, hpc,
                   must_cancel, dl, exc, now, last_update, pushed, nreg>>
    /\ UNCHANGED <<s3_key, aux>>

\* the error edit raised inside the except block: its exception leaves
\* process_upload at once, the lines after it do not run
ErrorEditFail(j) ==
    /\ Runs(j, "edit_error")
    /\ tpc' = [tpc EXCEPT ![j] = "done"]
    /\ exc' = [exc EXCEPT ![j] = "RPCError"]
    /\ event' = NoEvent
    /\ UNCHANGED <<user_tasks, user_status, files, njobs, owner, fname, hpc,
                   must_cancel, dl, now, last_update, pushed, nreg, nfile>>
    /\ UNCHANGED <<s3_key, aux>>

\* the task is stepped with a cancellation pending: CancelledError is thrown
\* at its await (or before its first line); no handler of process_upload or
\* progress_bar catches it, so the task ends cancelled
TaskCancelled(j) ==
    /\ must_cancel[j]
    /\ tpc[j] \notin {"none", "done"}
    /\ must_cancel' = [must_cancel EXCEPT ![j] = FALSE]
    /\ tpc' = [tpc EXCEPT ![j] = "done"]
    /\ exc' = [exc EXCEPT ![j] = "CancelledError"]
    /\ event' = NoEvent
    /\ UNCHANGED <<user_tasks, user_status, files, njobs, owner, fname, hpc,
                   dl, now, last_update, pushed, nreg, nfile>>
    /\ UNCHANGED <<s3_key, aux>>

\* ------------------------------------------------------------------- spec
Next ==
    \/ \E o \in Owners, size \in Sizes : SubmitTooLarge(o, size)
    \/ \E o \in Owners, size \in Sizes : SubmitAlreadyActive(o, size)
    \/ \E o \in Owners, n \in Names, size \in Sizes : SubmitAccept(o, n, size)
    \/ \E o \in Owners : CancelFound(o)
    \/ \E o \in Owners : CancelNotFound(o)
    \/ \E j \in Jobs : HandlerCancelled(j)
    \/ \E j \in Jobs : HandlerFailed(j)
    \/ \E j \in Jobs : HandlerFinally(j)
    \/ \E j \in Jobs : TaskStart(j)
    \/ \E j \in Jobs : ReplyOk(j)
    \/ \E j \in Jobs : ReplyFail(j)
    \/ \E j \in Jobs : DownloadChunk(j)
    \/ \E j \in Jobs : ProgressEditOk(j)
    \/ \E j \in Jobs : ProgressEditFloodWait(j)
    \/ \E j \in Jobs : FloodSleepDone(j)
    \/ \E j \in Jobs : ProgressEditError(j)
    \/ \E j \in Jobs : DownloadFail(j)
    \/ \E j \in Jobs : DownloadReturn(j)
    \/ \E j \in Jobs : EditUploadingOk(j)
    \/ \E j \in Jobs : EditUploadingFail(j)
    \/ \E j \in Jobs : ErrorEditOk(j)
    \/ \E j \in Jobs : ErrorEditFail(j)
    \/ \E j \in Jobs : TaskCancelled(j)

Spec == Init /\ [][Next]_vars

\* One step of job j: of its process_upload task or of the file_handler
\* invocation awaiting it.
JobStep(j) ==
    \/ TaskStart(j) \/ ReplyOk(j) \/ ReplyFail(j)
    \/ DownloadChunk(j) \/ ProgressEditOk(j) \/ ProgressEditFloodWait(j)
    \/ FloodSleepDone(j) \/ ProgressEditError(j)
    \/ DownloadFail(j) \/ DownloadReturn(j)
    \/ EditUploadingOk(j) \/ EditUploadingFail(j)
    \/ ErrorEditOk(j) \/ ErrorEditFail(j) \/ TaskCancelled(j)
    \/ HandlerCancelled(j) \/ HandlerFailed(j) \/ HandlerFinally(j)

\* The event loop runs every ready task, and every awaited call of the
\* transport or the notifier returns or raises: a job that can step, steps.
Fairness == \A j \in Jobs : WF_vars(JobStep(j))

\* The bot started when the clock window is used up, so that every reading
\* of the clock is the same: whether a job ends does not depend on how much
\* time passes between its steps, only on which of them push and which are
\* throttled, and both still happen (the first push of a chat is never
\* throttled, a second job's first push in the same chat is).
LateInit ==
    /\ InitBot(StartTime + MaxTicks)
    /\ arg = NoRet
    /\ ret = NoRet

FairSpec == LateInit /\ [][Next]_vars /\ Fairness


\* ================================================================ start-up
\* required_attrs of validate_config
required_attrs ==
    {"API_ID", "API_HASH", "BOT_TOKEN",
     "WASABI_ACCESS_KEY", "WASABI_SECRET_KEY", "WASABI_BUCKET"}

\* the attributes validate_config collects in "missing": config.py gives an
\* absent variable the default 0 or "", which "not getattr(...)" finds falsy
missing(present) == required_attrs \ present

\* validate_config, called first thing in WasabiUploadBot.__init__
validate_config(present) ==
    IF missing(present) # {}
        THEN <<"ValueError", missing(present)>>
        ELSE <<"validated">>

\* main() was entered; arg is the set of mandatory variables the
\* environment has
StartupInit ==
    /\ InitBot(StartTime)
    /\ arg \in SUBSET required_attrs
    /\ ret = <<"main">>

\* bot = WasabiUploadBot(): __init__ calls self.validate_config()
ValidateConfig ==
    /\ ret = <<"main">>
    /\ ret' = validate_config(arg)
    /\ UNCHANGED <<bot, arg>>

\* the rest of __init__: Client(...), boto3.client(...), TransferConfig,
\* the two dicts, register_handlers
CreateClients ==
    /\ ret = <<"validated">>
    /\ ret' = <<"clients">>
    /\ UNCHANGED <<bot, arg>>

\* asyncio.run(bot.run())
RunBot ==
    /\ ret = <<"clients">>
    /\ ret' = <<"running">>
    /\ UNCHANGED <<bot, arg>>

\* "except Exception as e: logger.error(...)": main() returns None, the
\* module ends and the interpreter exits with status 0
MainExcept ==
    /\ ret[1] = "ValueError"
    /\ ret' = <<"exit", 0>>
    /\ UNCHANGED <<bot, arg>>

StartupNext ==
    \/ ValidateConfig
    \/ CreateClients
    \/ RunBot
    \/ MainExcept

StartupSpec == StartupInit /\ [][StartupNext]_vars

\* ======================================================== sanitize_filename
\* A file name is a sequence of characters; one character stands for each
\* class the function tells apart: "a" a word character (\w), "." the dot,
\* "/" the path separator, " " the space, "*" a character the pattern removes
Chars == {"a", ".", "/", " ", "*"}

MaxLen == 4

Filenames == UNION {[1 .. n -> Chars] : n \in 0 .. MaxLen}

\* f"file_{int(time.time())}": word characters only
GeneratedName == <<"a", "_", "a">>

\* str.split("/")
RECURSIVE SplitSep(_)
SplitSep(s) ==
    IF s = <<>> THEN << <<>> >>
    ELSE LET r == SplitSep(Tail(s)) IN
         IF Head(s) = "/"
            THEN << <<>> >> \o r
            ELSE << <<Head(s)>> \o Head(r) >> \o Tail(r)

\* Path(filename).name: pathlib drops the empty and the "." components and
\* gives the last one left, "" when none is left; ".." is kept as a component
PathName(s) ==
    LET parts == SelectSeq(SplitSep(s), LAMBDA c : c # <<>> /\ c # <<".">>)
    IN  IF parts = <<>> THEN <<>> ELSE parts[Len(parts)]

\* re.sub(r'[^\w\-.@() ]', '', filename): of Chars the pattern keeps the
\* word character, the dot and the space
KeepSafe(s) == SelectSeq(s, LAMBDA c : c \in {"a", ".", " ", "_"})

\* safe_chars.replace(' ', '_')
ReplaceSpaces(s) == [i \in 1 .. Len(s) |-> IF s[i] = " " THEN "_" ELSE s[i]]

MaxNameLen == 255
KeptLen == 250

\* os.path.splitext of a name without separators: the extension starts at
\* the last dot unless only dots come before it
SplitExt(s) ==
    LET dots == {i \in 1 .. Len(s) : s[i] = "."}
        d == CHOOSE i \in dots : \A k \in dots : k <= i
    IN  IF dots # {} /\ \E k \in 1 .. d - 1 : s[k] # "."
           THEN <<SubSeq(s, 1, d - 1), SubSeq(s, d, Len(s))>>
           ELSE <<s, <<>> >>

\* name[:250] + ext when the name is longer than 255
Shorten(s) ==
    IF Len(s) > MaxNameLen
       THEN LET name == SplitExt(s)[1]
                ext == SplitExt(s)[2]
            IN  SubSeq(name, 1, IF Len(name) < KeptLen THEN Len(name) ELSE KeptLen) \o ext
       ELSE s

sanitize_filename(filename) ==
    IF filename = <<>> THEN GeneratedName
    ELSE LET safe_chars == Shorten(ReplaceSpaces(KeepSafe(PathName(filename))))
         IN  IF safe_chars # <<>> THEN safe_chars ELSE GeneratedName

SanitizeInit ==
    /\ InitBot(StartTime)
    /\ arg \in Filenames
    /\ ret = NoRet

SanitizeCall ==
    /\ ret = NoRet
    /\ ret' = <<"returned", sanitize_filename(arg)>>
    /\ UNCHANGED <<bot, arg>>

SanitizeNext == SanitizeCall

SanitizeSpec == SanitizeInit /\ [][SanitizeNext]_vars

\* =============================================================== human_size
Base == 1024

size_name == <<"B", "KB", "MB", "GB", "TB", "PB">>

MaxSize == 60

\* the sizes tried: everything near zero and the values around the powers
\* of 1024 that fit 32-bit integers
SizeArgs ==
    (-MaxSize .. MaxSize) \cup
    {-Base, Base - 1, Base, Base + 1, Base * Base - 1, Base * Base,
     Base * Base * Base - 1, Base * Base * Base}

\* int(math.floor(math.log(size_bytes, 1024))) for size_bytes >= 1
RECURSIVE LogFloor(_)
LogFloor(n) == IF n < Base THEN 0 ELSE 1 + LogFloor(n \div Base)

\* what human_size returns or raises; of the text f"{s} {size_name[i]}" the
\* unit is kept and the number s in front of it is left out
human_size(size_bytes) ==
    IF size_bytes = 0 THEN <<"returned", "0B">>
    ELSE IF size_bytes < 0 THEN <<"raised", "ValueError">>
    ELSE LET i == LogFloor(size_bytes) IN
         IF i >= Len(size_name)
            THEN <<"raised", "IndexError">>
            ELSE <<"returned", size_name[i + 1]>>

HumanSizeInit ==
    /\ InitBot(StartTime)
    /\ arg \in SizeArgs
    /\ ret = NoRet

HumanSizeCall ==
    /\ ret = NoRet
    /\ ret' = human_size(arg)
    /\ UNCHANGED <<bot, arg>>

HumanSizeNext == HumanSizeCall

HumanSizeSpec == HumanSizeInit /\ [][HumanSizeNext]_vars

\* ================================================================ claims
\* What a job came to.  process_upload has no path that returns normally
\* (every path reaches the NameError at the latest), so exc is never "none"
\* when the task is done.
Outcome(j) ==
    IF tpc[j] # "done" THEN "Running"
    ELSE IF exc[j] = "none" THEN "Completed"
    ELSE IF exc[j] = "CancelledError" THEN "Cancelled"
    ELSE "Failed"

\* the process_upload task of j was created and has not finished unwinding
NonTerminal(j) == tpc[j] \notin {"none", "done"}

\* j is in the Downloading or the Uploading phase and no cancel was requested
InTransfer(j) ==
    /\ tpc[j] \in {"download", "progress_edit", "flood_sleep", "edit_uploading"}
    /\ ~must_cancel[j]

\* everything but the reply of the last handler segment
state == <<user_tasks, user_status, files, njobs, owner, fname, tpc, hpc,
           must_cancel, dl, exc, now, last_update, pushed, nreg, nfile, s3_key>>

\* C1: at every moment at most one job of an owner is non-terminal (its
\* process_upload task was created and has not finished unwinding), also
\* when a submit follows a cancel before the cancelled task was stepped.
C1_OneNonTerminalJobPerOwner ==
    \A o \in Owners :
        Cardinality({j \in Jobs : owner[j] = o /\ NonTerminal(j)}) <= 1

\* C2: once the file_handler of a job has returned, neither dict holds an
\* entry made by that job and the file the job wrote is gone from the disk.
C2_NothingLeftAfterTerminal ==
    \A j \in Jobs :
        hpc[j] = "returned" =>
            /\ user_tasks[owner[j]] # j
            /\ user_status[owner[j]].job # j
            /\ files[FilePath(j)] # j

\* C3: for every job, its user_tasks entry and the file it wrote are each
\* removed at most once at any time, and exactly once by the time its
\* file_handler has returned (the file: if the job wrote one).
C3_CleanupExactlyOnce ==
    \A j \in Jobs :
        /\ nreg[j] <= 1
        /\ nfile[j] <= 1
        /\ hpc[j] = "returned" =>
              /\ nreg[j] = 1
              /\ (dl[j] > 0 => nfile[j] = 1)

\* C4: a cancel request of an owner made while a job of that owner is in the
\* Downloading or Uploading phase signals that job (so that it ends Cancelled
\* with its transfer incomplete) and leaves no staging file of it.
C4_CancelInTransferCancels ==
    [][\A o \in Owners, j \in Jobs :
          (/\ event' \in {<<"Cancelled", o>>, <<"NotFound", o>>}
           /\ owner[j] = o
           /\ InTransfer(j))
          => (must_cancel'[j] /\ files'[FilePath(j)] = None)]_vars

\* C5: a job that met no transport failure, no notifier failure and no cancel
\* (and whose status entry no other job's cleanup took away) ends Completed.
C5_HappyPathCompletes ==
    \A j \in Jobs :
        (/\ tpc[j] = "done"
         /\ exc[j] \notin {"CancelledError", "RPCError", "TransferError", "KeyError"})
        => Outcome(j) = "Completed"

\* C6: while the user has a key in user_tasks, no step creates a job of that
\* user and no submit of that user is accepted; the submit that is answered
\* AlreadyActive changes nothing: the stored task, the status entry, the
\* files, every task and every handler stay as they were.
C6_SecondSubmitRejected ==
    [][\A o \in Owners :
          user_tasks[o] # None =>
              /\ \A j \in Jobs : owner'[j] = o => owner[j] = o
              /\ \A s \in Sizes : event' # <<"Accepted", o, s>>
              /\ event' = <<"AlreadyActive", o>> =>
                    (state' = state /\ user_tasks'[o] # None)]_vars

\* C6 witness: a submit was just answered AlreadyActive while the user's
\* earlier job is still downloading
C6_Witness ==
    \E o \in Owners :
        /\ event = <<"AlreadyActive", o>>
        /\ user_tasks[o] # None
        /\ tpc[user_tasks[o]] = "download"
        /\ files[FilePath(user_tasks[o])] = user_tasks[o]

\* C7: a submit is answered TooLarge only when the declared size is above
\* the maximum (never at the maximum), that answer changes nothing (no task,
\* no entry, no file), and a size above the maximum is never accepted.
C7_TooLargeRejectedBeforeState ==
    [][\A o \in Owners, s \in Sizes :
          /\ event' = <<"TooLarge", o, s>> => (s > MAX_FILE_SIZE /\ state' = state)
          /\ event' = <<"Accepted", o, s>> => s <= MAX_FILE_SIZE]_vars

\* C7 witness: a file one MiB above the maximum was just turned away from a
\* user who has no job
C7_Witness ==
    \E o \in Owners :
        /\ event = <<"TooLarge", o, MAX_FILE_SIZE + 1>>
        /\ user_tasks[o] = None
        /\ user_status[o] = NoStatus
        /\ \A j \in Jobs : owner[j] # o

\* C8: no job ends with the failure of one of the orchestrator's notifier
\* calls as its result.
C8_NotifierFailureSwallowed ==
    \A j \in Jobs : tpc[j] = "done" => exc[j] # "RPCError"

\* C9: the failure of the edit of a progress report stays inside
\* progress_bar: the step that handles it leaves the task in the download
\* (or in the FloodWait sleep, which returns to the download), raises
\* nothing and changes nothing else, exactly as a successful edit.
C9_ProgressFailureContained ==
    [][\A j \in Jobs :
          /\ event' \in {<<"FloodWait", j>>, <<"ProgressError", j>>} =>
                /\ tpc'[j] \in {"download", "flood_sleep"}
                /\ exc'[j] = "none"
                /\ \A k \in Jobs \ {j} : tpc'[k] = tpc[k]
                /\ <<user_tasks, user_status, files, njobs, hpc, must_cancel,
                     dl, exc, pushed, nreg, nfile>>' =
                   <<user_tasks, user_status, files, njobs, hpc, must_cancel,
                     dl, exc, pushed, nreg, nfile>>
          /\ (tpc[j] = "flood_sleep" /\ tpc'[j] # "flood_sleep") =>
                (tpc'[j] = "download" \/ must_cancel[j])]_vars

\* C9 witness: the edit of the last progress report failed and the download
\* went on to return
C9_Witness ==
    \E j \in Jobs :
        /\ event = <<"ProgressError", j>>
        /\ tpc[j] = "download"
        /\ dl[j] = NumChunks

C12_CancelFrame ==
    [][\A o \in Owners :
          /\ event' = <<"NotFound", o>> => (user_tasks[o] = None /\ state' = state)
          /\ event' = <<"Cancelled", o>> =>
                /\ user_tasks[o] # None
                /\ owner[user_tasks[o]] = o
                /\ \A j \in Jobs \ {user_tasks[o]} : must_cancel'[j] = must_cancel[j]
                /\ \A u \in Owners \ {o} :
                      /\ user_tasks'[u] = user_tasks[u]
                      /\ user_status'[u] = user_status[u]
                      /\ \A n \in Names : files'[<<u, n>>] = files[<<u, n>>]
                /\ <<tpc, hpc, dl, exc, njobs>>' = <<tpc, hpc, dl, exc, njobs>>]_vars

\* C12 witness: a /cancel of one user was just answered "cancelled" while
\* another user's job is downloading with its file on disk
C12_Witness ==
    \E o \in Owners, k \in Jobs :
        /\ event = <<"Cancelled", o>>
        /\ owner[k] \in Owners \ {o}
        /\ user_tasks[owner[k]] = k
        /\ user_status[owner[k]].job = k
        /\ tpc[k] = "download"
        /\ files[FilePath(k)] = k


\* C16: within a job the phases follow one another: the "Uploading" step is
\* entered only from a download that wrote every chunk and returned, the
\* upload call is reached only from the "Uploading" step, and a job whose
\* download failed or that was cancelled never enters the "Uploading" step
\* nor reaches the upload call.  (No step of the code issues a link.)
C16_PhasesInSequence ==
    [][\A j \in Jobs :
          /\ (tpc'[j] = "edit_uploading" /\ tpc[j] # "edit_uploading") =>
                (tpc[j] = "download" /\ dl[j] = NumChunks /\ exc[j] = "none"
                 /\ ~must_cancel[j])
          /\ (exc'[j] = "NameError" /\ exc[j] # "NameError") =>
                (tpc[j] = "edit_uploading" /\ dl[j] = NumChunks /\ ~must_cancel[j])
          /\ (exc[j] \in {"TransferError", "CancelledError", "KeyError"} \/ must_cancel[j]) =>
                (tpc'[j] \notin {"download", "edit_uploading"} \/ tpc'[j] = tpc[j])
          /\ exc[j] \in {"TransferError", "CancelledError", "KeyError", "RPCError"} =>
                exc'[j] # "NameError"]_vars

\* C16 witness: the upload call was reached after a download that wrote
\* every chunk
C16_Witness ==
    \E j \in Jobs :
        /\ exc[j] = "NameError"
        /\ tpc[j] = "edit_error"
        /\ dl[j] = NumChunks
        /\ files[FilePath(j)] = j


\* C17: two jobs that are non-terminal at the same time never have the same
\* local staging path, also when the second is a submit of the same user
\* with the same file name right after a /cancel.
C17_DisjointStagingPaths ==
    \A j, k \in Jobs :
        (j # k /\ NonTerminal(j) /\ NonTerminal(k)) => FilePath(j) # FilePath(k)


\* C19: while the process_upload task of a job is running and no cancel was
\* requested for it, user_tasks holds that task under the job's user and,
\* once the task has set it, user_status holds that job's status dict; and
\* no cleanup step of one job (the finally block of its file_handler, or a
\* /cancel that stops it) removes the entry of another job.
C19_EntriesBelongToRunningJob ==
    /\ [](\A j \in Jobs :
            (NonTerminal(j) /\ ~must_cancel[j]) =>
                /\ user_tasks[owner[j]] = j
                /\ tpc[j] # "created" => user_status[owner[j]].job = j)
    /\ [][\A j \in Jobs :
            (hpc'[j] = "returned" /\ hpc[j] # "returned") =>
                /\ user_tasks[owner[j]] \in {None, j}
                /\ user_status[owner[j]].job \in {None, j}]_vars


\* C18: any two upload attempts, also two of the same user with the same
\* file name, compute different object keys.
C18_ObjectKeyUnique ==
    \A j, k \in Jobs :
        (j # k /\ s3_key[j] # NoKey /\ s3_key[k] # NoKey) => s3_key[j] # s3_key[k]


\* C20: every accepted job's file_handler eventually returns through its
\* finally block; at that step the owner's task and status entries are
\* gone, so the owner's next submit passes the concurrency check; and a job
\* whose handler returned never holds an entry again.
C20_AcceptedJobReleasesOwner ==
    /\ \A j \in Jobs : (hpc[j] = "await_task") ~> (hpc[j] = "returned")
    /\ [][\A j \in Jobs :
            (hpc'[j] = "returned" /\ hpc[j] # "returned") =>
                /\ user_tasks'[owner[j]] = None
                /\ user_status'[owner[j]] = NoStatus
                /\ ~HasActiveUpload(owner[j])']_vars
    /\ [](\A j \in Jobs :
            hpc[j] = "returned" =>
                /\ user_tasks[owner[j]] # j
                /\ user_status[owner[j]].job # j)

\* a job that failed in the upload step was released and its owner's next
\* submit was accepted
C20_Witness ==
    /\ hpc[1] = "returned" /\ exc[1] = "NameError"
    /\ owner[2] = owner[1] /\ hpc[2] = "await_task"


\* C13: when a mandatory configuration value is absent, the program never
\* creates a client or starts the bot, and the status it exits with is not 0.
C13_MissingConfigExitsNonZero ==
    missing(arg) # {} =>
        /\ ret[1] \notin {"clients", "running"}
        /\ ret[1] = "exit" => ret[2] # 0

\* C14: whatever the file name, sanitize_filename returns a name that is not
\* empty, has no path separator and has no two dots in a row.
C14_SanitizedNameConfined ==
    ret[1] = "returned" =>
        /\ ret[2] # <<>>
        /\ \A i \in 1 .. Len(ret[2]) : ret[2][i] # "/"
        /\ \A i \in 1 .. Len(ret[2]) - 1 : ~(ret[2][i] = "." /\ ret[2][i + 1] = ".")

\* 1024^i <= n < 1024^(i+1), by repeated division
RECURSIVE InUnit(_, _)
InUnit(n, i) == IF i = 0 THEN n \in 1 .. Base - 1 ELSE InUnit(n \div Base, i - 1)

\* C15: human_size never raises for an input of zero or less and returns
\* "0B" for it; for a positive input it picks the unit i with
\* 1024^i <= input < 1024^(i+1).
C15_HumanSizeTotal ==
    ret # NoRet =>
        /\ arg <= 0 => ret = <<"returned", "0B">>
        /\ arg > 0 => \E i \in 0 .. Len(size_name) - 1 :
                          /\ ret = <<"returned", size_name[i + 1]>>
                          /\ InUnit(arg, i)

====
